---- MODULE Spec2Model ----
(***************************************************************************)
(* Model of fastway's Endpoint (go/endpoint.go): one receive-loop          *)
(* goroutine demultiplexing one physical session into virtual sessions,    *)
(* application goroutines calling Dial, Accept and Close, and the          *)
(* rendezvous between them over unbuffered channels.                       *)
(***************************************************************************)
EXTENDS Integers, Sequences, FiniteSets

\* ---------------------------------------------------------------- bounds
NProcs == 2          \* application goroutines
MaxConnID == 2       \* connection IDs on the wire are 1..MaxConnID
MaxRemoteID == 1     \* remote IDs are 1..MaxRemoteID
MaxPayloads == 2     \* payload frames routed to one virtual session
RecvChanSize == 1    \* capacity of a virtual session's inbound queue
MaxClock == 2        \* time.Now().Unix() takes the values 0..MaxClock

Loop == 0
Procs == 1..NProcs
Callers == {Loop} \cup Procs
ConnIDs == 1..MaxConnID
RemoteIDs == 1..MaxRemoteID

VARIABLES
    pc,             \* position of the loop (pc[Loop]) and of each application goroutine
    got,            \* the vconn value a goroutine received from acceptChan / connectChan
    call,           \* the call a goroutine is in: operation, argument, whether Close had completed
    dialMutex,      \* holder of Endpoint.dialMutex, 0 when unlocked
    once,           \* state of Endpoint.closeOnce
    physCloses,     \* number of p.session.Close() calls made by Endpoint.Close
    fires,          \* number of close(p.closeChan) executions
    cur,            \* the refuse frame the loop is parked on (NoFrame otherwise)
    registry,       \* Endpoint.virtualConns: connection ID -> registered virtual session
    out,            \* the command the last step handed to the peer (NoCmd if none)
    ev,             \* the frame the last step processed and what became of it (NoEv if none)
    ret,            \* what the last step returned to the application (NoRet if nothing)
    clock,          \* the wall clock in seconds, time.Now().Unix()
    lastActive      \* Endpoint.lastActive

vars == <<pc, got, call, dialMutex, once, physCloses, fires, cur,
          registry, out, ev, ret, clock, lastActive>>

\* ------------------------------------------------------------ wire frames
\* decodePacket yields connID: 0 marks a command frame, whose opcode is cmd.
CmdFrame(c, a, r) == [connID |-> 0, cmd |-> c, a |-> a, r |-> r]
DataFrame(c) == [connID |-> c, cmd |-> "none", a |-> 0, r |-> 0]
NoFrame == [connID |-> 0, cmd |-> "none", a |-> 0, r |-> 0]

Frames ==
    {CmdFrame("accept", c, r) : c \in ConnIDs, r \in RemoteIDs}
    \cup {CmdFrame("refuse", 0, r) : r \in RemoteIDs}
    \cup {CmdFrame("connect", c, r) : c \in ConnIDs, r \in RemoteIDs}
    \cup {CmdFrame("close", c, 0) : c \in ConnIDs}
    \cup {CmdFrame("ping", 0, 0), CmdFrame("bad", 0, 0)}
    \cup {DataFrame(c) : c \in ConnIDs}

\* the buffer msg of one loop iteration (199): how often p.free was called on
\* it and the connection ID whose recvChan it was pushed into (0 for none)
NewBuf == [frees |-> 0, queued |-> 0]

\* a free that is skipped
FreeNever(b) == b

\* p.free(buf)
Free(b) == [b EXCEPT !.frees = @ + 1]

\* recvChan <- buf (210)
Push(b, c) == [b EXCEPT !.queued = c]

\* the loop's handling of frame f: how is "routed", "overflow" or "unknown"
\* for a payload frame, "parked" for a refusal nobody takes yet, "closed" or
\* "absent" for a close command, else "done"; buf is the frame's buffer
Ev(f, how, b) == [f |-> f, how |-> how, buf |-> b]
NoEv == Ev(NoFrame, "none", NewBuf)

\* commands this endpoint sends
NoCmd == [cmd |-> "none", arg |-> 0]
DialCmd(r) == [cmd |-> "dial", arg |-> r]
CloseCmd(c) == [cmd |-> "close", arg |-> c]

\* ------------------------------------------------------------- sessions
\* A reference to a virtual session (*link.Session) as a goroutine holds it:
\* the connection ID the session was created for and the rendezvous channel
\* it was offered on.  NoSession is nil.
Session(c, chan) == [connID |-> c, chan |-> chan]
NoSession == Session(0, "none")

\* the vconn struct (87-91)
vconn(s, c, r) == [session |-> s, connID |-> c, remoteID |-> r]
NoConn == vconn(NoSession, 0, 0)

\* a registered session: what became of its offer ("handed" to a caller,
\* "rejected" with a close command, "dropped" because the Endpoint had closed),
\* its inbound queue (virtualCodec.recvChan), and the payloads routed to it /
\* read from it so far
Entry(fate) == [fate |-> fate, queue |-> <<>>, routed |-> <<>>, delivered |-> <<>>]
NoEntry == Entry("none")

NoCall == [op |-> "none", remoteID |-> 0, afterClose |-> FALSE]

\* the values a call returns to goroutine p: kind is "session", "refused",
\* "eof" (io.EOF), "senderr" (the error of a failed send) or "none" (Close)
Ret(p, c, kind, conn) ==
    [p |-> p, op |-> c.op, afterClose |-> c.afterClose, kind |-> kind,
     session |-> conn.session, connID |-> conn.connID, remoteID |-> conn.remoteID]
NoRet == Ret(0, NoCall, "none", NoConn)

physClosed == physCloses > 0
closed == fires > 0

\* protocol.send on the physical session: fails once the session is closed,
\* otherwise the command is queued for the peer.
SendFails == physClosed
Send(c) == IF SendFails THEN NoCmd ELSE c

\* link.Uint32Channel
Get(reg, c) == reg[c]
Put(reg, c, fate) == [reg EXCEPT ![c] = Entry(fate)]
Remove(reg, c) == [reg EXCEPT ![c] = NoEntry]

\* Closing a virtual session removes it from the registry and releases its queue
VClose(reg, c) == Remove(reg, c)

\* goroutines parked in a select receiving from a rendezvous channel
WaitPc(chan) == IF chan = "acceptChan" THEN "dial_wait" ELSE "accept_wait"
GotPc(chan) == IF chan = "acceptChan" THEN "dial_got" ELSE "accept_got"
Receivers(chan) == {p \in Procs : pc[p] = WaitPc(chan)}

\* a queue that always has room
QueueNeverFull(q) == FALSE

\* non-blocking push into virtualCodec.recvChan (209-211): full when the
\* channel's buffer is used up
QueueFull(q) == Len(q) >= RecvChanSize

\* a push that loses the buffer
EnqueueLost(q, x) == q

Enqueue(q, x) == Append(q, x)

\* a store that is skipped
StoreNothing(old, now) == old

\* atomic.StoreInt64(&p.lastActive, time.Now().Unix())
Store(old, now) == now

\* line 192: whenever the loop comes round to the top of its for statement it
\* stores the clock, before it blocks in Receive; nothing else in endpoint.go
\* writes lastActive
LoopTop ==
    /\ clock' = clock
    /\ lastActive' = IF pc[Loop] # "recv" /\ pc'[Loop] = "recv"
                      THEN Store(lastActive, clock) ELSE lastActive

Init ==
    /\ pc = [p \in Callers |-> IF p = Loop THEN "recv" ELSE "idle"]
    /\ got = [p \in Procs |-> NoConn]
    /\ call = [p \in Procs |-> NoCall]
    /\ dialMutex = 0
    /\ once = "idle"
    /\ physCloses = 0
    /\ fires = 0
    /\ cur = NoFrame
    /\ registry = [c \in ConnIDs |-> NoEntry]
    /\ out = NoCmd
    /\ ev = NoEv
    /\ ret = NoRet
    /\ clock = 0
    /\ lastActive = Store(0, 0)

\* ------------------------------------------------- Endpoint.Dial (135-152)
\* a Lock that never waits
TryLockUnguarded(m) == TRUE

\* sync.Mutex: Lock succeeds only while the mutex is unlocked
TryLock(m) == m = 0

DialCall(p, r) ==
    /\ pc[p] = "idle"
    /\ pc' = [pc EXCEPT ![p] = "dial_lock"]
    /\ call' = [call EXCEPT ![p] = [NoCall EXCEPT !.op = "dial", !.remoteID = r,
                                               !.afterClose = (once = "done")]]
    /\ UNCHANGED <<got, dialMutex, once, physCloses, fires, cur, registry>> /\ out' = NoCmd /\ ev' = NoEv /\ ret' = NoRet
    /\ LoopTop

\* p.dialMutex.Lock(), then p.send(p.session, p.encodeDialCmd(remoteID));
\* a send error is returned as it is (with the deferred Unlock)
DialLock(p) ==
    /\ pc[p] = "dial_lock"
    /\ TryLock(dialMutex)
    /\ IF SendFails
       THEN /\ pc' = [pc EXCEPT ![p] = "idle"]
            /\ call' = [call EXCEPT ![p] = NoCall]
            /\ ret' = Ret(p, call[p], "senderr", NoConn)
            /\ dialMutex' = 0
            /\ out' = NoCmd
       ELSE /\ pc' = [pc EXCEPT ![p] = "dial_select"]
            /\ dialMutex' = p
            /\ out' = Send(DialCmd(call[p].remoteID))
            /\ ret' = NoRet
            /\ call' = call
    /\ ev' = NoEv
    /\ UNCHANGED <<got, once, physCloses, fires, cur, registry>>
    /\ LoopTop

\* entering the select of lines 143-151: a case that can proceed is taken,
\* otherwise the goroutine parks until the loop or Close wakes it
DialSelect(p) ==
    /\ pc[p] = "dial_select"
    /\ \/ /\ pc[Loop] = "refuse_wait"          \* the loop is parked sending a refusal
          /\ pc' = [pc EXCEPT ![p] = "dial_got", ![Loop] = "recv"]
          /\ got' = [got EXCEPT ![p] = vconn(NoSession, 0, cur.r)]
          /\ cur' = NoFrame
       \/ /\ closed
          /\ pc' = [pc EXCEPT ![p] = "dial_eof"]
          /\ UNCHANGED <<got, cur>>
       \/ /\ pc[Loop] # "refuse_wait"
          /\ ~closed
          /\ pc' = [pc EXCEPT ![p] = "dial_wait"]
          /\ UNCHANGED <<got, cur>>
    /\ UNCHANGED <<call, dialMutex, once, physCloses, fires, registry>> /\ out' = NoCmd /\ ev' = NoEv /\ ret' = NoRet
    /\ LoopTop

\* the returns without the conn.Session == nil test
DialResult_NoNilTest(p, c, where, conn) ==
    IF where = "dial_eof" THEN Ret(p, c, "eof", NoConn)
    ELSE Ret(p, c, "session", vconn(conn.session, conn.connID, 0))

\* the return statements of lines 145-150
DialResult(p, c, where, conn) ==
    IF where = "dial_eof" THEN Ret(p, c, "eof", NoConn)
    ELSE IF conn.session = NoSession THEN Ret(p, c, "refused", NoConn)
    ELSE Ret(p, c, "session", vconn(conn.session, conn.connID, 0))

\* return, then the deferred p.dialMutex.Unlock()
DialReturn(p) ==
    /\ pc[p] \in {"dial_got", "dial_eof"}
    /\ ret' = DialResult(p, call[p], pc[p], got[p])
    /\ pc' = [pc EXCEPT ![p] = "idle"]
    /\ call' = [call EXCEPT ![p] = NoCall]
    /\ dialMutex' = 0
    /\ got' = [got EXCEPT ![p] = NoConn]
    /\ UNCHANGED <<once, physCloses, fires, cur, registry>> /\ out' = NoCmd /\ ev' = NoEv
    /\ LoopTop

\* ----------------------------------------------- Endpoint.Accept (125-132)
\* nothing ever parks sending on connectChan, so on entry only closeChan can be ready
AcceptCall(p) ==
    /\ pc[p] = "idle"
    /\ pc' = [pc EXCEPT ![p] = IF closed THEN "accept_eof" ELSE "accept_wait"]
    /\ call' = [call EXCEPT ![p] = [NoCall EXCEPT !.op = "accept", !.afterClose = (once = "done")]]
    /\ UNCHANGED <<got, dialMutex, once, physCloses, fires, cur, registry>> /\ out' = NoCmd /\ ev' = NoEv /\ ret' = NoRet
    /\ LoopTop

AcceptResult(p, c, where, conn) ==
    IF where = "accept_eof" THEN Ret(p, c, "eof", NoConn)
    ELSE Ret(p, c, "session", conn)

AcceptReturn(p) ==
    /\ pc[p] \in {"accept_got", "accept_eof"}
    /\ ret' = AcceptResult(p, call[p], pc[p], got[p])
    /\ pc' = [pc EXCEPT ![p] = "idle"]
    /\ call' = [call EXCEPT ![p] = NoCall]
    /\ got' = [got EXCEPT ![p] = NoConn]
    /\ UNCHANGED <<dialMutex, once, physCloses, fires, cur, registry>> /\ out' = NoCmd /\ ev' = NoEv
    /\ LoopTop

\* ------------------------------------------------ Endpoint.Close (155-160)
\* no Once: every caller runs the function
OnceEvery(o) == TRUE

\* sync.Once: the function runs for the first caller only
OnceFirst(o) == o = "idle"

\* a close that wakes nobody
WakeNobody(f) == f

\* close(p.closeChan) wakes every goroutine parked in a select on closeChan
Wake(f) ==
    [q \in DOMAIN f |->
        IF f[q] = "dial_wait" THEN "dial_eof"
        ELSE IF f[q] = "accept_wait" THEN "accept_eof"
        ELSE IF f[q] = "refuse_wait" THEN "recv"
        ELSE f[q]]

Returned(c) == IF c = Loop THEN "done" ELSE "idle"

CloseCall(p) ==
    /\ pc[p] = "idle"
    /\ pc' = [pc EXCEPT ![p] = "close_call"]
    /\ call' = [call EXCEPT ![p] = [NoCall EXCEPT !.op = "close", !.afterClose = (once = "done")]]
    /\ UNCHANGED <<got, dialMutex, once, physCloses, fires, cur, registry>> /\ out' = NoCmd /\ ev' = NoEv /\ ret' = NoRet
    /\ LoopTop

\* closeOnce.Do entered by the first caller, which runs p.session.Close()
CloseBegin(c) ==
    /\ pc[c] \in {"close_call", "exit"}
    /\ OnceFirst(once)
    /\ once' = "running"
    /\ physCloses' = physCloses + 1
    /\ pc' = [pc EXCEPT ![c] = "close_fire"]
    /\ UNCHANGED <<got, call, dialMutex, fires, cur, registry>> /\ out' = NoCmd /\ ev' = NoEv /\ ret' = NoRet
    /\ LoopTop

\* Close returns to its caller
CloseReturn(c) == IF c = Loop THEN NoRet ELSE Ret(c, call[c], "none", NoConn)

\* close(p.closeChan), and Do returns
CloseFire(c) ==
    /\ pc[c] = "close_fire"
    /\ fires' = fires + 1
    /\ once' = "done"
    /\ pc' = [Wake(pc) EXCEPT ![c] = Returned(c)]
    /\ cur' = IF pc[Loop] = "refuse_wait" THEN NoFrame ELSE cur
    /\ call' = [q \in Procs |-> IF q = c THEN NoCall ELSE call[q]]
    /\ ret' = CloseReturn(c)
    /\ UNCHANGED <<got, dialMutex, physCloses, registry>> /\ out' = NoCmd /\ ev' = NoEv
    /\ LoopTop

\* closeOnce.Do for a later caller: returns once the first call has finished
CloseSkip(c) ==
    /\ pc[c] \in {"close_call", "exit"}
    /\ ~OnceFirst(once)
    /\ once = "done"
    /\ pc' = [pc EXCEPT ![c] = Returned(c)]
    /\ call' = [q \in Procs |-> IF q = c THEN NoCall ELSE call[q]]
    /\ ret' = CloseReturn(c)
    /\ UNCHANGED <<got, dialMutex, once, physCloses, fires, cur, registry>> /\ out' = NoCmd /\ ev' = NoEv
    /\ LoopTop

\* ------------------------------------------ Endpoint.addVirtualConn (172-182)
\* a close command that names no connection
RejectCmdNoID(connID) == CloseCmd(0)

\* line 180: the command sent when nobody takes the new connection
RejectCmd(connID) == CloseCmd(connID)

\* a default taken whenever nobody receives, the close signal notwithstanding
DefaultAlways(chan) == Receivers(chan) = {}

\* a select takes its default case only when no other case can proceed:
\* nobody is parked receiving on chan and closeChan is not closed (176-179)
DefaultReady(chan) == Receivers(chan) = {} /\ ~closed

\* Registers a new session under connID, then the three-way select: hand the
\* vconn to a goroutine parked on chan, or see closeChan closed, or (default)
\* send a close command for connID.
AddVirtualConn(connID, remoteID, chan) ==
    \/ \E p \in Receivers(chan) :
         /\ registry' = Put(registry, connID, "handed")
         /\ pc' = [pc EXCEPT ![p] = GotPc(chan), ![Loop] = "recv"]
         /\ got' = [got EXCEPT ![p] = vconn(Session(connID, chan), connID, remoteID)]
         /\ out' = NoCmd
    \/ /\ closed
       /\ registry' = Put(registry, connID, "dropped")
       /\ pc' = [pc EXCEPT ![Loop] = "recv"]
       /\ UNCHANGED got /\ out' = NoCmd
    \/ /\ DefaultReady(chan)
       /\ registry' = Put(registry, connID, "rejected")
       /\ pc' = [pc EXCEPT ![Loop] = "recv"]
       /\ out' = Send(RejectCmd(connID))
       /\ got' = got

\* ------------------------------------------------- Endpoint.loop (184-219)
\* p.session.Receive() fails once the physical session is closed
ReceiveFails == physClosed

\* a return that runs no deferred function
ReturnBare == "done"

\* a return from loop runs its deferred function, which calls p.Close() (185-186)
OnReturn == "exit"

\* a fault that is logged and skipped over
PanicSkipped == "recv"

\* a panic unwinds loop into the same deferred function, where recover() stops
\* it after p.Close() (186-189)
OnPanic == OnReturn

\* lines 192-200: a frame arrives; what it holds is decided when the loop
\* decodes it in the step that follows
LoopReceive ==
    /\ pc[Loop] = "recv"
    /\ ~ReceiveFails
    /\ pc' = [pc EXCEPT ![Loop] = "proc"]
    /\ UNCHANGED <<got, call, dialMutex, once, physCloses, fires, cur, registry>> /\ out' = NoCmd /\ ev' = NoEv /\ ret' = NoRet
    /\ LoopTop

\* Receive returns an error (transport failure or closed session): the loop
\* returns and its deferred function calls p.Close()
LoopReceiveError ==
    /\ pc[Loop] = "recv"
    /\ pc' = [pc EXCEPT ![Loop] = OnReturn]
    /\ UNCHANGED <<got, call, dialMutex, once, physCloses, fires, cur, registry>> /\ out' = NoCmd /\ ev' = NoEv /\ ret' = NoRet
    /\ LoopTop

IsCmd(f, c) == pc[Loop] = "proc" /\ f.connID = 0 /\ f.cmd = c

\* an accept offered to the Accept callers
DialChanSwapped == "connectChan"

\* the channel an accepted dial is offered on (227)
DialChan == "acceptChan"

\* processCmd, case acceptCmd
LoopAccept(f) ==
    /\ IsCmd(f, "accept")
    /\ AddVirtualConn(f.a, f.r, DialChan)
    /\ ev' = Ev(f, "done", Free(NewBuf)) /\ ret' = NoRet
    /\ UNCHANGED <<call, dialMutex, once, physCloses, fires, cur>>
    /\ LoopTop

\* processCmd, case connectCmd
LoopConnect(f) ==
    /\ IsCmd(f, "connect")
    /\ AddVirtualConn(f.a, f.r, "connectChan")
    /\ ev' = Ev(f, "done", Free(NewBuf)) /\ ret' = NoRet
    /\ UNCHANGED <<call, dialMutex, once, physCloses, fires, cur>>
    /\ LoopTop

\* processCmd, case refuseCmd: a blocking select on acceptChan and closeChan
LoopRefuse(f) ==
    /\ IsCmd(f, "refuse")
    /\ \/ \E p \in Receivers("acceptChan") :
             /\ pc' = [pc EXCEPT ![p] = "dial_got", ![Loop] = "recv"]
             /\ got' = [got EXCEPT ![p] = vconn(NoSession, 0, f.r)]
             /\ cur' = cur
       \/ /\ closed                              \* processCmd returns (235)
          /\ pc' = [pc EXCEPT ![Loop] = "recv"]
          /\ UNCHANGED <<got, cur>>
       \/ /\ Receivers("acceptChan") = {}
          /\ ~closed
          /\ pc' = [pc EXCEPT ![Loop] = "refuse_wait"]
          /\ cur' = f
          /\ got' = got
    /\ UNCHANGED <<call, dialMutex, once, physCloses, fires, registry>> /\ out' = NoCmd /\ ret' = NoRet
    /\ ev' = Ev(f, IF pc'[Loop] = "refuse_wait" THEN "parked" ELSE "done", Free(NewBuf))
    /\ LoopTop

\* a close command that is dropped
CloseIgnored(reg, c) == reg

\* a close command that closes every session
CloseEvery(reg, c) == [d \in DOMAIN reg |-> NoEntry]

\* lines 246-249: close the session registered under c, if there is one
CloseIfPresent(reg, c) == IF Get(reg, c) # NoEntry THEN VClose(reg, c) ELSE reg

\* processCmd, case closeCmd
LoopCloseCmd(f) ==
    /\ IsCmd(f, "close")
    /\ registry' = CloseIfPresent(registry, f.a)
    /\ pc' = [pc EXCEPT ![Loop] = "recv"]
    /\ ev' = Ev(f, IF Get(registry, f.a) # NoEntry THEN "closed" ELSE "absent", Free(NewBuf))
    /\ UNCHANGED <<got, call, dialMutex, once, physCloses, fires, cur>> /\ out' = NoCmd /\ ret' = NoRet
    /\ LoopTop

\* processCmd, case pingCmd
LoopPing(f) ==
    /\ IsCmd(f, "ping")
    /\ pc' = [pc EXCEPT ![Loop] = "recv"]
    /\ UNCHANGED <<got, call, dialMutex, once, physCloses, fires, cur, registry>> /\ out' = NoCmd /\ ev' = Ev(f, "done", Free(NewBuf)) /\ ret' = NoRet
    /\ LoopTop

\* processCmd, default: panic, caught by the loop's deferred function
LoopUnsupported(f) ==
    /\ pc[Loop] = "proc" /\ f.connID = 0
    /\ f.cmd \notin {"accept", "refuse", "connect", "close", "ping"}
    /\ pc' = [pc EXCEPT ![Loop] = OnPanic]
    /\ UNCHANGED <<got, call, dialMutex, once, physCloses, fires, cur, registry>> /\ out' = NoCmd /\ ev' = Ev(f, "done", Free(NewBuf)) /\ ret' = NoRet
    /\ LoopTop

\* no notice to the peer
EvictCmdNone(connID) == NoCmd

\* line 217: the command sent for a payload frame that was not queued
EvictCmd(connID) == CloseCmd(connID)

\* lines 207-217: a payload frame; the n-th payload routed to a session carries n
LoopPayload(f) ==
    /\ pc[Loop] = "proc" /\ f.connID # 0
    /\ Len(Get(registry, f.connID).routed) < MaxPayloads \/ QueueFull(Get(registry, f.connID).queue)
    /\ LET c == f.connID
           v == Get(registry, c)
           n == Len(v.routed) + 1
       IN  IF v # NoEntry /\ ~QueueFull(v.queue)
           THEN /\ registry' = [registry EXCEPT ![c].queue = Enqueue(@, n),
                                                ![c].routed = Append(@, n)]
                /\ out' = NoCmd
                /\ ev' = Ev(f, "routed", Push(NewBuf, c))
           ELSE /\ registry' = IF v # NoEntry THEN VClose(registry, c) ELSE registry
                /\ out' = Send(EvictCmd(c))
                /\ ev' = Ev(f, IF v # NoEntry THEN "overflow" ELSE "unknown", Free(NewBuf))
    /\ pc' = [pc EXCEPT ![Loop] = "recv"]
    /\ ret' = NoRet
    /\ UNCHANGED <<got, call, dialMutex, once, physCloses, fires, cur>>
    /\ LoopTop

\* ------------------------------------------------ virtual session consumer
\* the application holds the session registered under c: it was handed to a
\* Dial or Accept call and that call has returned it
Held(c) == registry[c].fate = "handed" /\ \A p \in Procs : got[p].connID # c

\* a Receive on a virtual session the application holds
Read(c) ==
    /\ Held(c)
    /\ registry[c].queue # <<>>
    /\ registry' = [registry EXCEPT ![c].queue = Tail(@),
                                    ![c].delivered = Append(@, Head(registry[c].queue))]
    /\ UNCHANGED <<pc, got, call, dialMutex, once, physCloses, fires, cur>> /\ out' = NoCmd /\ ev' = NoEv /\ ret' = NoRet
    /\ LoopTop

\* the application closes a virtual session it holds
SessionClose(c) ==
    /\ Held(c)
    /\ registry' = VClose(registry, c)
    /\ UNCHANGED <<pc, got, call, dialMutex, once, physCloses, fires, cur>> /\ out' = NoCmd /\ ev' = NoEv /\ ret' = NoRet
    /\ LoopTop

\* ------------------------------------------------------------------- Next
Next ==
    \/ \E p \in Procs, r \in RemoteIDs : DialCall(p, r)
    \/ \E p \in Procs : DialLock(p)
    \/ \E p \in Procs : DialSelect(p)
    \/ \E p \in Procs : DialReturn(p)
    \/ \E p \in Procs : AcceptCall(p)
    \/ \E p \in Procs : AcceptReturn(p)
    \/ \E p \in Procs : CloseCall(p)
    \/ \E c \in Callers : CloseBegin(c)
    \/ \E c \in Callers : CloseFire(c)
    \/ \E c \in Callers : CloseSkip(c)
    \/ LoopReceive
    \/ LoopReceiveError
    \/ \E f \in Frames : LoopAccept(f)
    \/ \E f \in Frames : LoopConnect(f)
    \/ \E f \in Frames : LoopRefuse(f)
    \/ \E f \in Frames : LoopCloseCmd(f)
    \/ \E f \in Frames : LoopPing(f)
    \/ \E f \in Frames : LoopUnsupported(f)
    \/ \E f \in Frames : LoopPayload(f)
    \/ \E c \in ConnIDs : Read(c)
    \/ \E c \in ConnIDs : SessionClose(c)

Spec == Init /\ [][Next]_vars

\* the clock moves on; it is non-decreasing
Tick ==
    /\ clock < MaxClock
    /\ clock' = clock + 1
    /\ UNCHANGED <<pc, got, call, dialMutex, once, physCloses, fires, cur, registry, lastActive>>
    /\ out' = NoCmd /\ ev' = NoEv /\ ret' = NoRet

TimedNext ==
    \/ Next
    \/ Tick

\* Spec watches the Endpoint within one second of the clock; TimedSpec lets
\* the clock advance between any two steps
TimedSpec == Init /\ [][TimedNext]_vars

\* The Go scheduler runs every runnable goroutine, so a goroutine inside Dial or
\* Accept takes its next step; sync.Mutex hands the lock to a waiter that is
\* passed over repeatedly (starvation mode).  Nothing obliges the application
\* to make a call, the peer to send a frame, or the transport to fail.
FairSpec ==
    /\ Spec
    /\ \A p \in Procs : WF_vars(DialSelect(p))
    /\ \A p \in Procs : WF_vars(DialReturn(p))
    /\ \A p \in Procs : WF_vars(AcceptReturn(p))
    /\ \A p \in Procs : SF_vars(DialLock(p))

\* =================================================================== claims
\* the Endpoint is open: no Close has begun
Open == once = "idle"
\* a Dial call that has sent its dial command and has not returned
InDial(p) == pc[p] \in {"dial_select", "dial_wait", "dial_got", "dial_eof"}
\* a Dial call that has sent its dial command and has no answer yet
AwaitingAnswer(p) == pc[p] \in {"dial_select", "dial_wait"}

\* C1: at most one Dial call is between sending its dial command and returning,
\* and that call holds the dial lock, so a concurrent Dial sends nothing before
\* the first has returned.
C1_OneDialInFlight ==
    /\ Cardinality({p \in Procs : InDial(p)}) <= 1
    /\ \A p \in Procs : InDial(p) => dialMutex = p

\* a second Dial is blocked on the lock while the first awaits its answer
C1_Witness ==
    \E p, q \in Procs : p # q /\ pc[p] = "dial_wait" /\ pc[q] = "dial_lock"

\* C2 (as claimed): whenever the loop processes an accept while a Dial has sent
\* its command and is still unanswered, and the Endpoint stays open, the new
\* session, registered under the accept's connection ID, is handed to that Dial.
C2_AcceptReachesDial ==
    [][\A p \in Procs, f \in Frames :
         (LoopAccept(f) /\ AwaitingAnswer(p) /\ Open /\ Open')
            => /\ pc'[p] = "dial_got"
               /\ got'[p] = vconn(Session(f.a, "acceptChan"), f.a, f.r)
               /\ registry'[f.a].fate = "handed"]_vars

\* C3: a refusal handed to a waiting Dial leaves the registry and the open /
\* closed state alone; that Dial returns the refusal error and no session, and
\* its return releases the dial lock.
C3_Refusal ==
    /\ [][\A p \in Procs :
            (pc[p] # "dial_got" /\ pc'[p] = "dial_got" /\ got'[p].session = NoSession)
               => /\ registry' = registry
                  /\ <<once, physCloses, fires>>' = <<once, physCloses, fires>>]_vars
    /\ [][\A p \in Procs :
            (pc[p] = "dial_got" /\ got[p].session = NoSession /\ pc'[p] # "dial_got")
               => /\ ret'.p = p /\ ret'.op = "dial"
                  /\ ret'.kind = "refused"
                  /\ ret'.session = NoSession
                  /\ pc'[p] = "idle"
                  /\ dialMutex' = 0
                  /\ registry' = registry
                  /\ <<once, physCloses, fires>>' = <<once, physCloses, fires>>]_vars

\* a Dial has just returned the refusal on an open Endpoint and the next Dial,
\* queued on the lock, can go on to send its command
C3_Witness ==
    \E p, q \in Procs :
        /\ p # q /\ Open
        /\ ret.p = p /\ ret.op = "dial" /\ ret.kind = "refused"
        /\ pc[q] = "dial_lock" /\ ENABLED DialLock(q)

\* C4: a connect processed on an open Endpoint while no goroutine is parked in
\* Accept sends close(connID) to the peer and hands the connection to nobody;
\* an Accept only ever receives a connection in the very step in which the loop
\* creates it from a connect, so the rejected one is never returned later.
C4_ConnectNobodyWaiting ==
    /\ [][\A f \in Frames :
            (LoopConnect(f) /\ Open /\ Receivers("connectChan") = {})
               => /\ out' = CloseCmd(f.a)
                  /\ registry'[f.a].fate = "rejected"
                  /\ got' = got]_vars
    /\ [][\A p \in Procs :
            (pc[p] # "accept_got" /\ pc'[p] = "accept_got")
               => \E f \in Frames :
                     /\ LoopConnect(f)
                     /\ pc[p] = "accept_wait"
                     /\ got'[p] = vconn(Session(f.a, "connectChan"), f.a, f.r)
                     /\ registry'[f.a].fate = "handed"]_vars

\* the loop has just rejected a connect that found no Accept waiting
C4_Witness ==
    /\ ev.f.cmd = "connect" /\ Open
    /\ registry[ev.f.a].fate = "rejected"
    /\ out = CloseCmd(ev.f.a)
    /\ \A p \in Procs : pc[p] # "accept_wait" /\ got[p] = NoConn

\* C5: a payload frame for a registered connection whose queue is full closes
\* exactly that session (its registry entry goes) and, the physical session
\* being open, sends close(connID); every other registry entry keeps its
\* session and queued data, and the Endpoint's close state does not change.
C5_Overflow ==
    [][\A f \in Frames :
         (LoopPayload(f) /\ registry[f.connID] # NoEntry
                         /\ Len(registry[f.connID].queue) >= RecvChanSize)
            => /\ registry'[f.connID] = NoEntry
               /\ (~physClosed => out' = CloseCmd(f.connID))
               /\ \A d \in ConnIDs \ {f.connID} : registry'[d] = registry[d]
               /\ <<once, physCloses, fires>>' = <<once, physCloses, fires>>
               /\ pc'[Loop] = "recv"]_vars

\* an overflow has just evicted one connection while another one is registered
\* with data in its queue and the Endpoint is open
C5_Witness ==
    \E d \in ConnIDs :
        /\ ev.how = "overflow" /\ d # ev.f.connID
        /\ out = CloseCmd(ev.f.connID) /\ registry[ev.f.connID] = NoEntry
        /\ registry[d] # NoEntry /\ registry[d].queue # <<>>
        /\ Open

C7_CloseOnce ==
    /\ [](physCloses <= 1 /\ fires <= 1 /\ fires <= physCloses)
    /\ [](once = "done" => physCloses = 1 /\ fires = 1)
    /\ [][closed => closed']_vars

\* the loop has finished its Close and an application goroutine's Close, made
\* meanwhile, has just returned
C7_Witness ==
    /\ pc[Loop] = "done" /\ closed
    /\ ret.p \in Procs /\ ret.op = "close"

\* C8 (as claimed): a Dial or Accept call that starts after Close has completed
\* returns the end-of-stream error.
C8_EOFAfterClose ==
    (ret.p \in Procs /\ ret.afterClose /\ ret.op \in {"dial", "accept"})
       => ret.kind = "eof"

\* C9: once the close signal has fired, every Dial call waiting for its answer
\* and every Accept call waiting for a connection returns the end-of-stream
\* error; a call that was handed a rendezvous value before the signal fired
\* returns too, and so does a Dial still queued on the dial lock.
C9_ClosedUnblocks ==
    \A p \in Procs :
        /\ (closed /\ pc[p] \in {"dial_select", "dial_wait", "dial_eof",
                                 "accept_wait", "accept_eof"})
              ~> (pc[p] = "idle" /\ ret.p = p /\ ret.kind = "eof")
        /\ (closed /\ pc[p] \in {"dial_lock", "dial_got", "accept_got"})
              ~> (pc[p] = "idle")

\* Close has fired while one Dial was parked in its select and another was
\* queued on the dial lock
C9_Witness ==
    \E p, q \in Procs :
        /\ p # q /\ closed
        /\ pc[p] = "dial_eof" /\ dialMutex = p
        /\ pc[q] = "dial_lock"

\* C10 (as claimed): while the Endpoint is open the loop is never parked
\* waiting for an application goroutine.
C10_LoopNeverWaits ==
    ~closed => pc[Loop] # "refuse_wait"

\* the loop has left its for statement
Stopped == pc[Loop] \in {"exit", "close_fire", "done"}

\* C11: a failed Receive makes the loop return into its deferred Close; a loop
\* that is in its deferred Close can always go on (or the Close already under
\* way can), and when the loop has exited the physical session is closed and
\* the close signal fired.
C11_LoopExitCloses ==
    /\ [][LoopReceiveError => pc'[Loop] = "exit"]_vars
    /\ [](pc[Loop] = "exit"
            => \/ ENABLED CloseBegin(Loop)
               \/ ENABLED CloseSkip(Loop)
               \/ \E c \in Procs : once = "running" /\ ENABLED CloseFire(c))
    /\ [](pc[Loop] = "close_fire" => ENABLED CloseFire(Loop))
    /\ [](pc[Loop] = "done" => closed /\ physCloses = 1 /\ once = "done")

\* the loop has exited on an Endpoint no application goroutine was closing, and
\* its Close has woken a parked Accept
C11_Witness ==
    /\ pc[Loop] = "done" /\ closed
    /\ \A p \in Procs : call[p].op # "close"
    /\ \E p \in Procs : pc[p] = "accept_eof"

\* C12: a command frame with an unknown opcode sends the loop into its deferred
\* function, like a return, leaving registry, callers and close state as they
\* were; a loop that has stopped processes no further frame and never resumes;
\* and a loop that has exited leaves the Endpoint closed.
C12_UnknownOpcodeStops ==
    /\ [][\A f \in Frames :
            LoopUnsupported(f)
               => /\ pc'[Loop] = "exit"
                  /\ registry' = registry /\ got' = got
                  /\ \A p \in Procs : pc'[p] = pc[p]
                  /\ <<once, physCloses, fires>>' = <<once, physCloses, fires>>]_vars
    /\ [][Stopped => Stopped' /\ ev' = NoEv]_vars
    /\ [](pc[Loop] = "done" => closed)

\* the loop has just met an unknown opcode on an open Endpoint
C12_Witness ==
    /\ ev.f.cmd = "bad" /\ pc[Loop] = "exit" /\ Open

\* C13: an Accept call receives a value only in the step in which the loop
\* processes a connect, and that value carries the connect's session,
\* connection ID and remote ID; a Dial call receives a session only in the step
\* in which the loop processes an accept; and each call returns the session
\* and connection ID it received (Accept the remote ID as well).
C13_RendezvousSeparate ==
    /\ [][\A p \in Procs :
            (pc[p] # "accept_got" /\ pc'[p] = "accept_got")
               => \E f \in Frames :
                     /\ LoopConnect(f)
                     /\ got'[p] = vconn(Session(f.a, "connectChan"), f.a, f.r)]_vars
    /\ [][\A p \in Procs :
            (pc[p] # "dial_got" /\ pc'[p] = "dial_got" /\ got'[p].session # NoSession)
               => \E f \in Frames :
                     /\ LoopAccept(f)
                     /\ got'[p] = vconn(Session(f.a, "acceptChan"), f.a, f.r)]_vars
    /\ [][\A p \in Procs :
            (pc[p] = "accept_got" /\ pc'[p] # "accept_got")
               => /\ ret'.p = p /\ ret'.op = "accept" /\ ret'.kind = "session"
                  /\ ret'.session = got[p].session
                  /\ ret'.connID = got[p].connID
                  /\ ret'.remoteID = got[p].remoteID]_vars
    /\ [][\A p \in Procs :
            (pc[p] = "dial_got" /\ got[p].session # NoSession /\ pc'[p] # "dial_got")
               => /\ ret'.p = p /\ ret'.op = "dial" /\ ret'.kind = "session"
                  /\ ret'.session = got[p].session
                  /\ ret'.connID = got[p].connID]_vars
    /\ [](ret.kind = "session"
            => /\ ret.session.connID = ret.connID
               /\ ret.session.chan = (IF ret.op = "dial" THEN "acceptChan" ELSE "connectChan"))

\* a Dial holds the session of an accept while an Accept holds the connection
\* of a connect
C13_Witness ==
    \E p, q \in Procs :
        /\ pc[p] = "dial_got" /\ got[p].session.chan = "acceptChan"
        /\ pc[q] = "accept_got" /\ got[q].session.chan = "connectChan"
        /\ got[p].connID # got[q].connID

\* C14: the buffer of every frame the loop has processed was either freed
\* exactly once and queued nowhere, or queued in the recvChan of the one
\* session registered under the frame's connection ID and not freed; the
\* latter only for a payload frame that found room, the former on every other
\* path (commands of any opcode, unknown connection ID, full queue).
C14_BufferOwnedOnce ==
    ev # NoEv
       => /\ \/ ev.buf.frees = 1 /\ ev.buf.queued = 0
             \/ ev.buf.frees = 0 /\ ev.buf.queued = ev.f.connID /\ ev.buf.queued # 0
          /\ ev.buf.queued # 0
                <=> (ev.how = "routed" /\ registry[ev.f.connID].queue # <<>>)
          /\ (ev.f.connID = 0 \/ ev.how \in {"overflow", "unknown"}) => ev.buf.frees = 1

\* the loop has just dropped a payload frame that found its queue full, after
\* freeing its buffer
C14_Witness ==
    ev.how = "overflow" /\ ev.buf.frees = 1 /\ ev.buf.queued = 0

\* C15 (as claimed): on an open Endpoint every registered connection ID maps to
\* a session that was handed to a Dial or Accept caller; a connection rejected
\* as over capacity leaves no registry entry behind.
C15_RejectedEvicted ==
    Open => \A c \in ConnIDs : registry[c].fate \in {"none", "handed"}

\* C16: the loop handles one frame at a time, in arrival order.  A close
\* command for c leaves no session registered under c; a payload frame for an
\* unregistered ID is queued nowhere and leaves the registry as it is; and an
\* ID becomes registered again only by a later accept or connect for it, with
\* a new, empty queue.
C16_CloseBeforeLater ==
    /\ [][\A f \in Frames : LoopCloseCmd(f) => registry'[f.a] = NoEntry]_vars
    /\ [][\A f \in Frames :
            (LoopPayload(f) /\ registry[f.connID] = NoEntry)
               => registry' = registry /\ ev'.buf.queued = 0]_vars
    /\ [][\A c \in ConnIDs :
            (registry[c] = NoEntry /\ registry'[c] # NoEntry)
               => /\ \E f \in Frames : (LoopAccept(f) \/ LoopConnect(f)) /\ f.a = c
                  /\ registry'[c].queue = <<>> /\ registry'[c].routed = <<>>]_vars
    /\ [][pc[Loop] = "proc" /\ pc'[Loop] = "proc" => ev' = NoEv]_vars

\* the loop has just processed a close command for a registered connection and
\* is about to receive the next frame
C16_Witness ==
    /\ ev.how = "closed" /\ registry[ev.f.a] = NoEntry
    /\ pc[Loop] = "recv" /\ ~ReceiveFails

\* C17: a close command for c removes the session registered under c and
\* nothing else; with none registered it changes nothing, so a second close
\* for c is a no-op; goroutines parked on the rendezvous channels, values
\* handed over, the close state and the peer see nothing of it.
C17_CloseCmdFrame ==
    /\ [][\A f \in Frames :
            LoopCloseCmd(f)
               => /\ registry' = [registry EXCEPT ![f.a] = NoEntry]
                  /\ registry[f.a] = NoEntry => registry' = registry
                  /\ got' = got /\ cur' = cur
                  /\ \A p \in Procs : pc'[p] = pc[p]
                  /\ <<once, physCloses, fires, dialMutex>>' = <<once, physCloses, fires, dialMutex>>
                  /\ out' = NoCmd
                  /\ pc'[Loop] = "recv"]_vars
    /\ [](\A c \in ConnIDs :
            CloseIfPresent(CloseIfPresent(registry, c), c) = CloseIfPresent(registry, c))

\* a close command has just closed one session on an open Endpoint while
\* another session holds queued data and goroutines are parked in Dial and in
\* Accept
C17_Witness ==
    \E d \in ConnIDs, p, q \in Procs :
        /\ ev.how = "closed" /\ d # ev.f.a /\ Open
        /\ registry[d] # NoEntry /\ registry[d].queue # <<>>
        /\ pc[p] = "dial_wait" /\ pc[q] = "accept_wait"

\* C18: an accept or connect processed after the close signal has fired takes
\* the closeChan case of addVirtualConn's select: the session is registered and
\* dropped, nothing is handed over and no command is sent; the default case,
\* which sends close(connID), is taken only while the signal has not fired.
C18_NoRejectAfterClose ==
    /\ [][\A f \in Frames :
            ((LoopAccept(f) \/ LoopConnect(f)) /\ closed)
               => /\ out' = NoCmd
                  /\ registry'[f.a].fate = "dropped"
                  /\ got' = got]_vars
    /\ [][\A f \in Frames :
            ((LoopAccept(f) \/ LoopConnect(f)) /\ registry'[f.a].fate = "rejected")
               => ~closed]_vars

\* the loop has just processed a connect that it had received before Close
\* fired the signal
C18_Witness ==
    /\ ev.f.cmd = "connect" /\ closed
    /\ registry[ev.f.a].fate = "dropped" /\ out = NoCmd

\* C19: with a clock that never goes back, lastActive never decreases and
\* never runs ahead of the clock; and whenever the loop, having processed a
\* received frame, comes back to receive the next one, lastActive holds the
\* clock's value of that moment.
C19_LastActiveMonotone ==
    /\ [][lastActive' >= lastActive]_vars
    /\ [](lastActive <= clock)
    /\ [][(pc[Loop] \in {"proc", "refuse_wait"} /\ pc'[Loop] = "recv")
             => lastActive' = clock /\ lastActive' = clock']_vars

\* the clock has advanced twice and the loop, back from processing a frame,
\* has stored the new time
C19_Witness ==
    /\ ev.f # NoFrame /\ pc[Loop] = "recv"
    /\ clock >= 2 /\ lastActive = clock

\* C20: a payload frame whose connection ID is not registered has its buffer
\* freed once and queued nowhere and, the physical session being open, a
\* close command for that ID is sent; registry, callers and close state stay
\* as they were and the loop goes back to receive.
C20_UnknownConnNotFatal ==
    [][\A f \in Frames :
         (LoopPayload(f) /\ registry[f.connID] = NoEntry)
            => /\ ev'.buf = Free(NewBuf)
               /\ ~physClosed => out' = CloseCmd(f.connID)
               /\ registry' = registry /\ got' = got
               /\ \A p \in Procs : pc'[p] = pc[p]
               /\ <<once, physCloses, fires>>' = <<once, physCloses, fires>>
               /\ pc'[Loop] = "recv"]_vars

\* on an open Endpoint the loop has just answered a payload frame for an
\* unregistered connection ID and can receive the next frame
C20_Witness ==
    /\ ev.how = "unknown" /\ out = CloseCmd(ev.f.connID) /\ Open
    /\ registry[ev.f.connID] = NoEntry
    /\ pc[Loop] = "recv" /\ ENABLED LoopReceive

====
